---------------------------- MODULE Spec2Model ----------------------------
(***************************************************************************)
(* Model of the luxfi/evm migration scripts:                               *)
(*   fix_go_ethereum_imports.py  quoted import-path rewrite   ("geth")     *)
(*   fix_luxfi_imports.py        bare luxdefi/node rewrite    ("luxfi")    *)
(*   fix_syntax_errors.py        line-by-line syntax repair   ("syntax")   *)
(*   create_missing_interfaces.py placeholder synthesis       ("create")   *)
(*                                                                         *)
(* Text is a sequence.  For the syntax repair it is a sequence of          *)
(* characters (one-character strings).  For the two import rewrites it is  *)
(* a sequence of tokens whose concatenation is the file's text: a quote    *)
(* character, a whole import path, or a fragment of the luxdefi/node path. *)
(* Python's str.replace is the same leftmost, non-overlapping scan on      *)
(* both; the token alphabets are chosen so that every match of a pattern   *)
(* in the concatenated text starts and ends on a token boundary.           *)
(***************************************************************************)
EXTENDS Naturals, Sequences, FiniteSets

VARIABLES
    script,       \* which script runs: "geth", "luxfi", "syntax", "create"
    pc,           \* position of the run
    exit_code,    \* process exit status once the run has ended
    \* --- one file, the per-file function called on it twice
    content,      \* text of the file on disk
    original,     \* text of the file before the first call
    rets,         \* values returned by the calls so far
    wrote,        \* whether each call so far opened the file for writing
    \* --- a directory tree, walked by a script's main program
    root_exists,  \* whether the root directory exists
    disk,         \* directory -> the file it holds (TreeSpec)
    disk0,        \* disk as it was when the run started
    stack,        \* os.walk: directories still to be yielded, next first
    go_files,     \* glob result still to be processed, next first
    fixed_files,  \* process_directory's list / files counted by fixed_count
    reads,        \* files opened for reading
    writes,       \* files opened for writing
    returned,     \* files whose per-file call returned, with the value
    failed,       \* files whose open() raised
    printed,      \* whether the final report was printed
    \* --- placeholder synthesis
    blocked,      \* entries of interfaces_to_create whose path cannot be made
    idx,          \* index of the next entry of interfaces_to_create
    created       \* entries written so far

fileVars == <<content, original, rets, wrote>>
treeVars == <<root_exists, disk, disk0, stack, go_files, fixed_files,
              reads, writes, returned, failed, printed>>
synthVars == <<blocked, idx, created>>
vars == <<script, pc, exit_code, fileVars, treeVars, synthVars>>

(***************************************************************************)
(* Bounds of the model.                                                    *)
(***************************************************************************)
MaxTokens == 5
MaxPieces == 3
MaxComment == 2
MaxBlocked == 2
MaxFiles == 3

(***************************************************************************)
(* Python string primitives.                                               *)
(***************************************************************************)
\* s[i:i+len(pat)] == pat
HasAt(s, i, pat) ==
    /\ i + Len(pat) - 1 <= Len(s)
    /\ SubSeq(s, i, i + Len(pat) - 1) = pat

\* pat in s
Contains(s, pat) == \E i \in 1..Len(s) : HasAt(s, i, pat)

\* the least element of a non-empty set of indices, 0 for the empty set
First(S) == IF S = {} THEN 0 ELSE CHOOSE x \in S : \A y \in S : x <= y

\* s.find(pat, i): index of the first match of pat at or after i, 0 if none
Find(s, pat, i) == First({j \in i..Len(s) : HasAt(s, j, pat)})

\* s.replace(old, new) for a non-empty old: leftmost matches, non-overlapping;
\* the scan resumes right after each match
RECURSIVE ReplaceFrom(_, _, _, _)
ReplaceFrom(s, old, new, i) ==
    LET j == Find(s, old, i)
    IN  IF j = 0 THEN SubSeq(s, i, Len(s))
        ELSE SubSeq(s, i, j - 1) \o new \o ReplaceFrom(s, old, new, j + Len(old))

Replace(s, old, new) == ReplaceFrom(s, old, new, 1)

\* every sequence over alphabet A of length at most n
SeqsUpTo(A, n) == UNION {[1..k -> A] : k \in 0..n}

RECURSIVE Concat(_)
Concat(ss) == IF ss = << >> THEN << >> ELSE Head(ss) \o Concat(Tail(ss))

(***************************************************************************)
(* fix_go_ethereum_imports.py                                              *)
(***************************************************************************)
DQ == "\""
SQ == "'"

import_mappings == <<
    <<"github.com/luxdefi/evm/core/types", "github.com/ethereum/go-ethereum/core/types">>,
    <<"github.com/luxdefi/evm/core/rawdb", "github.com/ethereum/go-ethereum/core/rawdb">>,
    <<"github.com/luxdefi/evm/core/vm", "github.com/ethereum/go-ethereum/core/vm">>,
    <<"github.com/luxdefi/evm/accounts", "github.com/ethereum/go-ethereum/accounts">>,
    <<"github.com/luxdefi/evm/accounts/external", "github.com/ethereum/go-ethereum/accounts/external">>,
    <<"github.com/luxdefi/evm/accounts/keystore", "github.com/ethereum/go-ethereum/accounts/keystore">>,
    <<"github.com/luxdefi/evm/ethdb", "github.com/ethereum/go-ethereum/ethdb">>,
    <<"github.com/luxdefi/evm/trie", "github.com/ethereum/go-ethereum/trie">>,
    <<"github.com/luxdefi/evm/metrics", "github.com/ethereum/go-ethereum/metrics">>,
    <<"github.com/luxdefi/evm/interfaces/ethdb", "github.com/ethereum/go-ethereum/ethdb">>,
    <<"github.com/luxdefi/evm/interfaces/core/vm", "github.com/ethereum/go-ethereum/core/vm">>,
    <<"github.com/luxdefi/evm/interfaces/libevm", "github.com/ethereum/go-ethereum/libevm">>,
    <<"github.com/luxdefi/evm/interfaces/libevm/legacy", "github.com/ethereum/go-ethereum/libevm/legacy">>,
    <<"github.com/luxdefi/evm/interfaces/libevm/stateconf", "github.com/ethereum/go-ethereum/libevm/stateconf">>,
    <<"github.com/luxdefi/evm/interfaces/params", "github.com/ethereum/go-ethereum/params">>,
    <<"github.com/luxdefi/evm/interfaces/trie/trienode", "github.com/ethereum/go-ethereum/trie/trienode">>,
    <<"github.com/luxdefi/evm/interfaces/trie/triestate", "github.com/ethereum/go-ethereum/trie/triestate">>,
    <<"github.com/luxdefi/evm/interfaces/triedb", "github.com/ethereum/go-ethereum/triedb">>,
    <<"github.com/luxdefi/evm/interfaces/triedb/database", "github.com/ethereum/go-ethereum/triedb/database">>,
    <<"github.com/luxdefi/evm/interfaces/triedb/pathdb", "github.com/ethereum/go-ethereum/triedb/pathdb">>,
    <<"golang.org/x/exp/slices", "slices">>,
    <<"golang.org/x/exp/slog", "log/slog">> >>

\* one iteration of the loop over import_mappings.items()
ApplyMapping(c, m) ==
    Replace(Replace(c, <<DQ, m[1], DQ>>, <<DQ, m[2], DQ>>),
            <<SQ, m[1], SQ>>, <<SQ, m[2], SQ>>)

\* the loop over import_mappings.items(): entries lo..hi applied in table
\* order (the range is halved to keep the evaluation shallow)
RECURSIVE ApplyMappings(_, _, _)
ApplyMappings(c, lo, hi) ==
    IF c = << >> \/ lo > hi THEN c
    ELSE IF lo = hi THEN ApplyMapping(c, import_mappings[lo])
    ELSE ApplyMappings(ApplyMappings(c, lo, (lo + hi) \div 2),
                       (lo + hi) \div 2 + 1, hi)

\* WriteBack with the comparison dropped: the file is always written
WriteBackAlways(original_content, new) ==
    [new |-> new, wrote |-> TRUE, ret |-> TRUE]

\* "if content != original_content": the file is opened for writing and
\* True is returned exactly then
WriteBack(original_content, new) ==
    LET changed == new # original_content
    IN  [new |-> new, wrote |-> changed, ret |-> changed]

fix_go_file_geth(c) == WriteBack(c, ApplyMappings(c, 1, Len(import_mappings)))

(***************************************************************************)
(* fix_luxfi_imports.py                                                    *)
(* 'github.com/luxdefi/node' = "github.com/lux" "de" "fi/node"             *)
(* 'github.com/luxfi/node'   = "github.com/lux"      "fi/node"             *)
(***************************************************************************)
LUXDEFI_NODE == <<"github.com/lux", "de", "fi/node">>
LUXFI_NODE == <<"github.com/lux", "fi/node">>

fix_go_file_luxfi(c) == WriteBack(c, Replace(c, LUXDEFI_NODE, LUXFI_NODE))

(***************************************************************************)
(* fix_syntax_errors.py                                                    *)
(***************************************************************************)
NL == "\n"
PAT_IF == <<"_", ",", " ", "_", " ", "=", " ", "i", "f">>
PAT_RETURN == <<"_", ",", " ", "_", " ", "=", " ", "r", "e", "t", "u", "r", "n">>
PAT_DEFER == <<"_", " ", "=", " ", "d", "e", "f", "e", "r">>
DISCARD2 == <<"_", ",", " ", "_", " ", "=", " ">>
DISCARD1 == <<"_", " ", "=", " ">>
KW_IF == <<"i", "f">>
KW_RETURN == <<"r", "e", "t", "u", "r", "n">>

\* the characters \w matches
WordChars ==
    {"_", "a", "b", "c", "d", "e", "f", "g", "h", "i", "j", "k", "l", "m",
     "n", "o", "p", "q", "r", "s", "t", "u", "v", "w", "x", "y", "z",
     "0", "1", "2", "3", "4", "5", "6", "7", "8", "9"}

\* f.readlines(): the text cut after every newline, newlines kept
RECURSIVE ReadLinesFrom(_, _)
ReadLinesFrom(s, start) ==
    LET j == Find(s, <<NL>>, start)
    IN  IF start > Len(s) THEN << >>
        ELSE IF j = 0 THEN <<SubSeq(s, start, Len(s))>>
        ELSE <<SubSeq(s, start, j)>> \o ReadLinesFrom(s, j + 1)

readlines(s) == ReadLinesFrom(s, 1)

\* index of the last character of the longest run of \w from i (i-1: none)
WordEnd(s, i) ==
    LET stop == First({j \in i..Len(s) : s[j] \notin WordChars})
    IN  IF stop = 0 THEN Len(s) ELSE stop - 1

\* index of the last character '.*' takes from i: up to the next newline
DotStarEnd(s, i) ==
    LET stop == Find(s, <<NL>>, i)
    IN  IF stop = 0 THEN Len(s) ELSE stop - 1

\* re.sub(r'_ = (defer.*)', r'\1', s)
RECURSIVE SubDeferFrom(_, _)
SubDeferFrom(s, i) ==
    LET j == Find(s, PAT_DEFER, i)
        e == DotStarEnd(s, j + Len(PAT_DEFER))
    IN  IF j = 0 THEN SubSeq(s, i, Len(s))
        ELSE SubSeq(s, i, j - 1) \o SubSeq(s, j + Len(DISCARD1), e)
                 \o SubDeferFrom(s, e + 1)

SubDefer(s) == SubDeferFrom(s, 1)

\* r'_, _ = \w+, \w+ =' matched at i: index of its last character, 0 if none
MatchDouble(s, i) ==
    IF ~HasAt(s, i, DISCARD2) THEN 0
    ELSE LET a == i + Len(DISCARD2)
             e1 == WordEnd(s, a)
         IN  IF e1 < a \/ ~HasAt(s, e1 + 1, <<",", " ">>) THEN 0
             ELSE LET b == e1 + 3
                      e2 == WordEnd(s, b)
                  IN  IF e2 < b \/ ~HasAt(s, e2 + 1, <<" ", "=">>) THEN 0
                      ELSE e2 + 2

\* re.search(r'_, _ = \w+, \w+ =', s)
SearchDouble(s) == \E i \in 1..Len(s) : MatchDouble(s, i) > 0

\* re.sub(r'_, _ = (\w+, \w+ =)', r'\1', s)
RECURSIVE SubDoubleFrom(_, _)
SubDoubleFrom(s, i) ==
    LET j == First({k \in i..Len(s) : MatchDouble(s, k) > 0})
        e == MatchDouble(s, j)
    IN  IF j = 0 THEN SubSeq(s, i, Len(s))
        ELSE SubSeq(s, i, j - 1) \o SubSeq(s, j + Len(DISCARD2), e)
                 \o SubDoubleFrom(s, e + 1)

SubDouble(s) == SubDoubleFrom(s, 1)

\* the four repair rules: whether rule r matches a line, and its fix
RuleMatches(r, line) ==
    CASE r = 1 -> Contains(line, PAT_IF)
      [] r = 2 -> Contains(line, PAT_RETURN)
      [] r = 3 -> Contains(line, PAT_DEFER)
      [] r = 4 -> SearchDouble(line)

RuleFix(r, line) ==
    CASE r = 1 -> Replace(line, PAT_IF, KW_IF)
      [] r = 2 -> Replace(line, PAT_RETURN, KW_RETURN)
      [] r = 3 -> SubDefer(line)
      [] r = 4 -> SubDouble(line)

NumRules == 4

\* lines[i] after the four ifs of one loop iteration.  Every rule tests and
\* transforms the loop variable `line`, the line as it was read, and assigns
\* the result to lines[i]: cur is lines[i] after the rules before r.
RECURSIVE FixLineFrom(_, _, _)
FixLineFrom(line, cur, r) ==
    IF r > NumRules THEN cur
    ELSE FixLineFrom(line,
                     IF RuleMatches(r, line) THEN RuleFix(r, line) ELSE cur,
                     r + 1)

FixLine(line) == FixLineFrom(line, line, 1)

\* modified = True is assigned by a rule that matches the line
LineModified(line) == \E r \in 1..NumRules : RuleMatches(r, line)

fix_syntax_errors(c) ==
    LET lines == readlines(c)
        modified == \E i \in 1..Len(lines) : LineModified(lines[i])
        fixed == [i \in 1..Len(lines) |-> FixLine(lines[i])]
    IN  [new |-> Concat(fixed), wrote |-> modified, ret |-> modified]

(***************************************************************************)
(* The per-file function of each tree-processing script.                   *)
(***************************************************************************)
FixFile(s, c) ==
    CASE s = "geth" -> fix_go_file_geth(c)
      [] s = "luxfi" -> fix_go_file_luxfi(c)
      [] s = "syntax" -> fix_syntax_errors(c)

FileScripts == {"geth", "luxfi", "syntax"}

(***************************************************************************)
(* One file, the per-file function called on it twice                      *)
(* (the script run, and run again, on the same file).                      *)
(***************************************************************************)
\* text a .go file may hold, per script
GethTokens ==
    {DQ, SQ, "github.com/luxdefi/evm/accounts", "golang.org/x/exp/slices", "x"}

LuxfiTokens == {"github.com/lux", "de", "fi/node", "x"}

P_DOUBLE == <<"_", ",", " ", "_", " ", "=", " ", "n", ",", " ", "e", "r", "r", " ", "=">>
P_X == <<" ", "x">>

RepairPieces ==
    {PAT_IF, PAT_RETURN, PAT_DEFER, P_DOUBLE, DISCARD2, P_X, <<NL>>}

Inputs(s) ==
    CASE s = "geth" -> SeqsUpTo(GethTokens, MaxTokens)
      [] s = "luxfi" -> SeqsUpTo(LuxfiTokens, MaxTokens)
      [] s = "syntax" -> {Concat(p) : p \in SeqsUpTo(RepairPieces, MaxPieces)}

TreeIdle ==
    /\ root_exists = TRUE
    /\ disk = << >>
    /\ disk0 = << >>
    /\ stack = << >>
    /\ go_files = << >>
    /\ fixed_files = << >>
    /\ reads = {}
    /\ writes = {}
    /\ returned = {}
    /\ failed = {}
    /\ printed = FALSE

SynthIdle ==
    /\ blocked = {}
    /\ idx = 1
    /\ created = {}

FileInit ==
    /\ script \in FileScripts
    /\ content \in Inputs(script)
    /\ original = content
    /\ rets = << >>
    /\ wrote = << >>
    /\ pc = "start"
    /\ exit_code = 0
    /\ TreeIdle
    /\ SynthIdle

\* a call of fix_go_file / fix_syntax_errors on the file
CallFixFile ==
    /\ pc \in {"start", "once"}
    /\ LET r == FixFile(script, content)
       IN  /\ content' = IF r.wrote THEN r.new ELSE content
           /\ rets' = Append(rets, r.ret)
           /\ wrote' = Append(wrote, r.wrote)
    /\ pc' = IF pc = "start" THEN "once" ELSE "twice"
    /\ UNCHANGED <<script, exit_code, original, treeVars, synthVars>>

FileNext == CallFixFile

FileSpec == FileInit /\ [][FileNext]_vars

(***************************************************************************)
(* One line of the form <indent>_, _ = if<cond> {<comment><eol>,           *)
(* repaired by fix_syntax_errors.                                          *)
(***************************************************************************)
P_BRACE == <<" ", "{">>
P_SLASHES == <<" ", "/", "/">>

Indents == {<< >>, <<"\t">>, <<" ", " ">>}
Conds == {<<" ", "o", "k">>, <<" ", "!", "o", "k">>}
CommentPieces == {PAT_IF, PAT_RETURN, PAT_DEFER, P_DOUBLE, DISCARD2, P_X}
Comments ==
    {<< >>} \cup {P_SLASHES \o Concat(p) : p \in SeqsUpTo(CommentPieces, MaxComment)}
Eols == {<< >>, <<NL>>}

\* the line, with `head` where the erroneous prefix and keyword stand
ScopedLine(indent, head, cond, comment, eol) ==
    indent \o head \o cond \o P_BRACE \o comment \o eol

ScopedInit ==
    /\ script = "syntax"
    /\ \E indent \in Indents, cond \in Conds, comment \in Comments, eol \in Eols :
           content = ScopedLine(indent, PAT_IF, cond, comment, eol)
    /\ original = content
    /\ rets = << >>
    /\ wrote = << >>
    /\ pc = "start"
    /\ exit_code = 0
    /\ TreeIdle
    /\ SynthIdle

ScopedSpec == ScopedInit /\ [][FileNext]_vars

(***************************************************************************)
(* A directory tree and the main programs that traverse it.                *)
(* A directory is the sequence of names from the root down to it; a path   *)
(* is a character string.  Each directory holds at most one file, so a     *)
(* file is identified by its directory.                                    *)
(***************************************************************************)
N_CORE == <<"c", "o", "r", "e">>
N_VENDOR == <<"v", "e", "n", "d", "o", "r">>
N_SUB == <<"s", "u", "b">>
N_DOTGIT == <<".", "g", "i", "t">>
N_A_GO == <<"a", ".", "g", "o">>
N_B_TXT == <<"b", ".", "t", "x", "t">>
EXT_GO == <<".", "g", "o">>
SLASH == <<"/">>
\* '/Users/z/work/lux/evm'
TOP == <<"/", "U", "s", "e", "r", "s", "/", "z", "/", "w", "o", "r", "k", "/",
         "l", "u", "x", "/", "e", "v", "m">>

\* the directories of the tree, in the order the file system lists them
DirList == << << >>, <<N_CORE>>, <<N_VENDOR>>, <<N_VENDOR, N_SUB>>, <<N_DOTGIT>> >>
Dirs == {DirList[k] : k \in 1..Len(DirList)}

\* the subdirectories of d, as os.scandir lists them
Children(d) ==
    SelectSeq(DirList,
              LAMBDA x : Len(x) = Len(d) + 1 /\ SubSeq(x, 1, Len(d)) = d)

\* os.path.join(top, name, ...): the path of directory d below top
RECURSIVE JoinPath(_, _)
JoinPath(top, d) ==
    IF d = << >> THEN top
    ELSE JoinPath(IF top = << >> THEN Head(d) ELSE top \o SLASH \o Head(d), Tail(d))

\* "if 'vendor' in root or '.git' in root"
Excluded(root) == Contains(root, N_VENDOR) \/ Contains(root, N_DOTGIT)

\* file.endswith('.go')
EndsWithGo(name) ==
    Len(name) >= Len(EXT_GO)
        /\ SubSeq(name, Len(name) - Len(EXT_GO) + 1, Len(name)) = EXT_GO

\* glob: a name starting with a dot is matched by neither '**' nor '*.go'
Hidden(name) == name # << >> /\ name[1] = "."

NoFile == [name |-> << >>, text |-> << >>]

\* text a file of the tree may hold: one text no rule matches, two it changes
TreeTexts(s) ==
    CASE s = "geth" ->
             {<<"x">>,
              <<DQ, "github.com/luxdefi/evm/accounts", DQ>>,
              <<"x", SQ, "golang.org/x/exp/slices", SQ>>}
      [] s = "luxfi" ->
             {<<"x">>, LUXDEFI_NODE, <<"x">> \o LUXDEFI_NODE \o LUXDEFI_NODE}
      [] s = "syntax" ->
             {P_X \o <<NL>>,
              PAT_IF \o P_X \o <<NL>>,
              PAT_DEFER \o P_X \o <<NL>> \o P_DOUBLE \o P_X}

FilesOf(s) ==
    {[name |-> N_A_GO, text |-> t] : t \in TreeTexts(s)}
        \cup {[name |-> N_B_TXT, text |-> CHOOSE t \in TreeTexts(s) : FixFile(s, t).ret]}

HasGoFile(d) == EndsWithGo(disk[d].name)

TreeInit ==
    /\ script \in FileScripts
    /\ root_exists \in BOOLEAN
    /\ disk \in [Dirs -> FilesOf(script) \cup {NoFile}]
    /\ Cardinality({d \in Dirs : disk[d] # NoFile}) <= MaxFiles
    /\ ~root_exists => \A d \in Dirs : disk[d] = NoFile
    /\ disk0 = disk
    /\ stack = << >>
    /\ go_files = << >>
    /\ fixed_files = << >>
    /\ reads = {}
    /\ writes = {}
    /\ returned = {}
    /\ failed = {}
    /\ printed = FALSE
    /\ pc = "main"
    /\ exit_code = 0
    /\ content = << >>
    /\ original = << >>
    /\ rets = << >>
    /\ wrote = << >>
    /\ SynthIdle

\* fix_go_file(filepath) / fix_syntax_errors(filepath) on the file of d, both
\* open() calls succeeding
CallOnFile(d) ==
    LET r == FixFile(script, disk[d].text)
    IN  /\ reads' = reads \cup {d}
        /\ writes' = IF r.wrote THEN writes \cup {d} ELSE writes
        /\ disk' = IF r.wrote THEN [disk EXCEPT ![d].text = r.new] ELSE disk
        /\ returned' = returned \cup {<<d, r.ret>>}
        /\ fixed_files' = IF r.ret THEN Append(fixed_files, d) ELSE fixed_files
        /\ UNCHANGED <<failed, exit_code>>

\* open(filepath, 'r') raises: nothing catches it, the interpreter exits
CallReadFails(d) ==
    /\ failed' = failed \cup {d}
    /\ pc' = "crashed"
    /\ exit_code' = 1
    /\ UNCHANGED <<reads, writes, disk, returned, fixed_files>>

\* the text is changed and open(filepath, 'w') raises: nothing catches it
CallWriteFails(d) ==
    /\ FixFile(script, disk[d].text).wrote
    /\ reads' = reads \cup {d}
    /\ failed' = failed \cup {d}
    /\ pc' = "crashed"
    /\ exit_code' = 1
    /\ UNCHANGED <<writes, disk, returned, fixed_files>>

treeFrame == <<script, root_exists, disk0, printed, fileVars, synthVars>>

\* process_directory(top): os.walk(top) starts; a top that cannot be listed
\* yields nothing (os.walk ignores the error, onerror is None)
StartWalk ==
    /\ pc = "main" /\ script \in {"geth", "luxfi"}
    /\ stack' = IF root_exists THEN << << >> >> ELSE << >>
    /\ pc' = "walk"
    /\ UNCHANGED <<disk, go_files, fixed_files, reads, writes, returned, failed,
                   exit_code, treeFrame>>

\* os.walk yields a directory whose path holds 'vendor' or '.git': continue
WalkSkip ==
    /\ pc = "walk" /\ stack # << >>
    /\ Excluded(JoinPath(TOP, Head(stack)))
    /\ stack' = Children(Head(stack)) \o Tail(stack)
    /\ UNCHANGED <<pc, disk, go_files, fixed_files, reads, writes, returned,
                   failed, exit_code, treeFrame>>

\* os.walk yields another directory: the loop over its files
WalkVisit ==
    /\ pc = "walk" /\ stack # << >>
    /\ ~Excluded(JoinPath(TOP, Head(stack)))
    /\ IF HasGoFile(Head(stack))
       THEN CallOnFile(Head(stack))
       ELSE UNCHANGED <<disk, fixed_files, reads, writes, returned, failed, exit_code>>
    /\ stack' = Children(Head(stack)) \o Tail(stack)
    /\ UNCHANGED <<pc, go_files, treeFrame>>

WalkReadFails ==
    /\ pc = "walk" /\ stack # << >>
    /\ ~Excluded(JoinPath(TOP, Head(stack)))
    /\ HasGoFile(Head(stack))
    /\ CallReadFails(Head(stack))
    /\ UNCHANGED <<stack, go_files, treeFrame>>

WalkWriteFails ==
    /\ pc = "walk" /\ stack # << >>
    /\ ~Excluded(JoinPath(TOP, Head(stack)))
    /\ HasGoFile(Head(stack))
    /\ CallWriteFails(Head(stack))
    /\ UNCHANGED <<stack, go_files, treeFrame>>

\* process_directory returns fixed_files; main prints the count and the list
FinishWalk ==
    /\ pc = "walk" /\ stack = << >>
    /\ printed' = TRUE
    /\ pc' = "done"
    /\ exit_code' = 0
    /\ UNCHANGED <<script, root_exists, disk, disk0, stack, go_files, fixed_files,
                   reads, writes, returned, failed, fileVars, synthVars>>

\* fix_syntax_errors.py: os.chdir(root) raises FileNotFoundError
ChdirFails ==
    /\ pc = "main" /\ script = "syntax" /\ ~root_exists
    /\ pc' = "crashed"
    /\ exit_code' = 1
    /\ UNCHANGED <<disk, stack, go_files, fixed_files, reads, writes, returned,
                   failed, treeFrame>>

\* glob.glob("**/*.go", recursive=True): every .go file below the working
\* directory that is not hidden and lies in no hidden directory
GlobGoFiles ==
    SelectSeq(DirList,
              LAMBDA d : /\ EndsWithGo(disk[d].name)
                         /\ ~Hidden(disk[d].name)
                         /\ \A k \in 1..Len(d) : ~Hidden(d[k]))

Glob ==
    /\ pc = "main" /\ script = "syntax" /\ root_exists
    /\ go_files' = GlobGoFiles
    /\ pc' = "loop"
    /\ UNCHANGED <<disk, stack, fixed_files, reads, writes, returned, failed,
                   exit_code, treeFrame>>

\* one iteration of "for filepath in go_files"
RepairNext ==
    /\ pc = "loop" /\ go_files # << >>
    /\ CallOnFile(Head(go_files))
    /\ go_files' = Tail(go_files)
    /\ UNCHANGED <<pc, stack, treeFrame>>

RepairReadFails ==
    /\ pc = "loop" /\ go_files # << >>
    /\ CallReadFails(Head(go_files))
    /\ UNCHANGED <<stack, go_files, treeFrame>>

RepairWriteFails ==
    /\ pc = "loop" /\ go_files # << >>
    /\ CallWriteFails(Head(go_files))
    /\ UNCHANGED <<stack, go_files, treeFrame>>

\* print(f"Fixed {fixed_count} files")
FinishRepair ==
    /\ pc = "loop" /\ go_files = << >>
    /\ printed' = TRUE
    /\ pc' = "done"
    /\ exit_code' = 0
    /\ UNCHANGED <<script, root_exists, disk, disk0, stack, go_files, fixed_files,
                   reads, writes, returned, failed, fileVars, synthVars>>

TreeNext ==
    \/ StartWalk \/ WalkSkip \/ WalkVisit \/ WalkReadFails \/ WalkWriteFails
    \/ FinishWalk
    \/ ChdirFails \/ Glob \/ RepairNext \/ RepairReadFails \/ RepairWriteFails
    \/ FinishRepair

TreeSpec == TreeInit /\ [][TreeNext]_vars

(***************************************************************************)
(* create_missing_interfaces.py: the module-level loop over                *)
(* interfaces_to_create.  An entry is identified by its index in the list. *)
(***************************************************************************)
interfaces_to_create == <<
    "interfaces/core/asm/asm.go",
    "interfaces/metrics/metrics.go",
    "interfaces/core/rawdb/rawdb.go",
    "interfaces/trie/trie.go",
    "trie/trienode/node.go",
    "interfaces/ethdb/memorydb/memorydb.go",
    "eth/tracers/logger/logger.go",
    "eth/tracers/js/tracer.go",
    "eth/tracers/native/tracer.go",
    "vmerrs/errors.go",
    "interfaces/core/txpool/blobpool/blobpool.go",
    "interfaces/core/txpool/legacypool/legacypool.go",
    "interfaces/eth/tracers/js/js.go",
    "interfaces/eth/tracers/native/native.go",
    "interfaces/trie/testutil/testutil.go",
    "accounts/scwallet/wallet.go",
    "tests/utils/runner/runner.go",
    "x/warp/warp.go",
    "ethdb/memorydb/memorydb.go" >>

Entries == 1..Len(interfaces_to_create)

SynthInit ==
    /\ script = "create"
    /\ blocked \in SUBSET Entries
    /\ Cardinality(blocked) <= MaxBlocked
    /\ idx = 1
    /\ created = {}
    /\ pc = "loop"
    /\ exit_code = 0
    /\ content = << >>
    /\ original = << >>
    /\ rets = << >>
    /\ wrote = << >>
    /\ TreeIdle

\* one iteration: os.makedirs(..., exist_ok=True), open(full_path, 'w'),
\* f.write(content), print
CreateEntry ==
    /\ pc = "loop" /\ idx \in Entries /\ idx \notin blocked
    /\ created' = created \cup {idx}
    /\ idx' = idx + 1
    /\ UNCHANGED <<script, pc, exit_code, blocked, fileVars, treeVars>>

\* CreateFails with the error swallowed: the entry is skipped, the loop goes on
CreateFailsSkip ==
    /\ pc = "loop" /\ idx \in Entries /\ idx \in blocked
    /\ idx' = idx + 1
    /\ UNCHANGED <<script, pc, exit_code, blocked, created, fileVars, treeVars>>

\* os.makedirs or open raises for this entry (a parent that is a file, a
\* directory where the file should be): nothing catches it, the script ends
CreateFails ==
    /\ pc = "loop" /\ idx \in Entries /\ idx \in blocked
    /\ pc' = "crashed"
    /\ exit_code' = 1
    /\ UNCHANGED <<script, blocked, idx, created, fileVars, treeVars>>

\* the list is exhausted: the script ends normally
FinishCreate ==
    /\ pc = "loop" /\ idx \notin Entries
    /\ pc' = "done"
    /\ exit_code' = 0
    /\ UNCHANGED <<script, blocked, idx, created, fileVars, treeVars>>

SynthNext == CreateEntry \/ CreateFails \/ FinishCreate

SynthSpec == SynthInit /\ [][SynthNext]_vars

(***************************************************************************)
(* Claims about the runs over a tree and the placeholder synthesis.        *)
(***************************************************************************)
\* the files a run touched: read, written or listed as fixed
Touched == reads \cup writes \cup {fixed_files[k] : k \in 1..Len(fixed_files)}

\* C2: exclusion in every traversing mode.  No file under a directory whose
\* path contains 'vendor' or '.git' is read, modified or listed as fixed,
\* in the import-rewrite runs and in the syntax-repair run alike.
C2_ExclusionEveryMode ==
    \A d \in Touched : ~Excluded(JoinPath(<< >>, d))

\* the same for the two import-rewrite runs alone
ExclusionInProcessDirectory ==
    script \in {"geth", "luxfi"} => \A d \in Touched : ~Excluded(JoinPath(<< >>, d))

\* the .go files process_directory is to process
Eligible ==
    {d \in Dirs : EndsWithGo(disk0[d].name) /\ ~Excluded(JoinPath(TOP, d))}

Returned == {x[1] : x \in returned}

\* C3: per-file failure isolation in process_directory.  A file whose
\* open() fails is skipped and the run goes on: it does not end in an
\* uncaught error, and it ends with every other eligible file processed and
\* the list printed.
C3_FailureIsolation ==
    script \in {"geth", "luxfi"}
        => /\ pc # "crashed"
           /\ pc = "done" =>
                  (printed /\ \A d \in Eligible \ failed : d \in Returned)

\* C4: write only on change.  A file whose per-file call returned was
\* opened for writing iff its transformed text differs from the text read,
\* the call returned True iff so, no file is opened for writing with its
\* text unchanged, and process_directory's list holds exactly the changed
\* files.
Differs(d) == FixFile(script, disk0[d].text).new # disk0[d].text

C4_WriteOnlyOnChange ==
    /\ \A x \in returned :
           /\ (x[1] \in writes) <=> Differs(x[1])
           /\ x[2] <=> Differs(x[1])
           /\ disk[x[1]].text = FixFile(script, disk0[x[1]].text).new
    /\ \A d \in writes : Differs(d)
    /\ \A d \in Dirs \ writes : disk[d] = disk0[d]
    /\ pc = "done" =>
           /\ {fixed_files[k] : k \in 1..Len(fixed_files)}
                  = {d \in Returned : Differs(d)}
           /\ Len(fixed_files) = Cardinality({d \in Returned : Differs(d)})

C4_Witness ==
    /\ pc = "done"
    /\ writes # {}
    /\ \E x \in returned : x[2] = FALSE
    /\ Len(fixed_files) >= 1

\* C7: a missing root is fatal.  With no root directory, a run of any
\* traversing script ends in an error with a non-zero exit status, never as
\* a completed run reporting zero changed files.
C7_MissingRootFatal ==
    (~root_exists /\ pc \in {"done", "crashed"})
        => (pc = "crashed" /\ exit_code # 0 /\ ~printed)

\* the same for the syntax-repair run alone
MissingRootFatalInRepair ==
    (script = "syntax" /\ ~root_exists /\ pc \in {"done", "crashed"})
        => (pc = "crashed" /\ exit_code # 0 /\ ~printed)

\* C6: placeholder synthesis aborts on the first failure.  Entries are
\* written in list order with none skipped; when an entry fails the script
\* ends there with an error, the entries before it written and none after.
C6_AbortOnFirstFailure ==
    script = "create"
        => /\ created = 1..(idx - 1)
           /\ \A b \in blocked : \A j \in created : j < b
           /\ pc = "crashed" => (idx \in blocked /\ exit_code # 0)
           /\ pc = "done" => (blocked = {} /\ created = Entries)

C6_Witness ==
    /\ pc = "crashed"
    /\ created # {}
    /\ \E b \in blocked : b > idx

(***************************************************************************)
(* Claims about the per-file functions.                                    *)
(***************************************************************************)
\* C1: rewrite idempotence.  For both import rewrites, a second call on the
\* result of the first returns False and does not write the file.
C1_RewriteIdempotent ==
    (script \in {"geth", "luxfi"} /\ pc = "twice")
        => (rets[2] = FALSE /\ wrote[2] = FALSE)

\* the bare luxdefi/node rule alone: its second call changes nothing
LuxfiIdempotent ==
    (script = "luxfi" /\ pc = "twice") => (rets[2] = FALSE /\ wrote[2] = FALSE)

\* the per-file function alone, over every text of FileSpec: the first call
\* wrote the file, and returned True, iff the text it leaves differs from the
\* text it read
FileWrittenIffChanged ==
    pc = "once"
        => /\ wrote[1] <=> (content # original)
           /\ rets[1] <=> (content # original)

\* C5: quoting fidelity.  After fix_go_ethereum_imports.fix_go_file, every
\* mapped old path that stood between two double quotes or between two
\* single quotes is the new path, and every other token is as it was.
OldPaths == {import_mappings[k][1] : k \in 1..Len(import_mappings)}

NewPathOf(old) ==
    import_mappings[CHOOSE k \in 1..Len(import_mappings) :
                        import_mappings[k][1] = old][2]

EnclosedIn(c, i, q) == i > 1 /\ i < Len(c) /\ c[i - 1] = q /\ c[i + 1] = q

QuotedRewrite(c) ==
    [i \in 1..Len(c) |->
        IF c[i] \in OldPaths /\ (EnclosedIn(c, i, DQ) \/ EnclosedIn(c, i, SQ))
        THEN NewPathOf(c[i]) ELSE c[i]]

C5_QuotingFidelity ==
    (script = "geth" /\ pc = "once") => content = QuotedRewrite(original)

\* C8: sequential repair on one line.  Each rule is tested against and
\* applied to the line as transformed by the rules before it, so the stored
\* line carries the fix of every rule that matched.
RECURSIVE SequentialFix(_, _)
SequentialFix(cur, r) ==
    IF r > NumRules THEN cur
    ELSE SequentialFix(IF RuleMatches(r, cur) THEN RuleFix(r, cur) ELSE cur, r + 1)

C8_SequentialRepair ==
    (script = "syntax" /\ pc = "once")
        => LET lines == readlines(original)
           IN  content = Concat([i \in 1..Len(lines) |-> SequentialFix(lines[i], 1)])

\* C9: repair idempotence.  After one pass of fix_syntax_errors no line
\* contains any of the four repair patterns, and a second pass returns False
\* and writes nothing.
C9_RepairIdempotent ==
    script = "syntax"
        => /\ pc = "once" =>
                  \A i \in 1..Len(readlines(content)) :
                      ~LineModified(readlines(content)[i])
           /\ pc = "twice" => (rets[2] = FALSE /\ wrote[2] = FALSE)

\* C10: line-scoped repair.  A line <indent>_, _ = if<cond> {<comment> comes
\* out as <indent>if<cond> {<comment>: indentation and comment unchanged,
\* whatever the comment contains.
C10_LineScopedRepair ==
    pc = "once"
        => \A indent \in Indents, cond \in Conds, comment \in Comments, eol \in Eols :
               original = ScopedLine(indent, PAT_IF, cond, comment, eol)
                   => content = ScopedLine(indent, KW_IF, cond, comment, eol)

=============================================================================
